---- MODULE Spec2Model ----
(***************************************************************************)
(* The webhook handler of uniaiv1.py as a state machine: one request is    *)
(* received and walked through the handler line by line.  Text is a        *)
(* sequence of one-character strings, so that strip, lower, split and the  *)
(* substring test are computed as Python computes them.  A value that can  *)
(* be None in the code is a sequence of length 0 (None) or 1 (the value).  *)
(* An Airtable row is a function from the names of the fields it carries   *)
(* to their values, so that dict.get and dict truthiness are DOMAIN tests. *)
(* The source ends at line 303, inside the InfoSearch branch: where the    *)
(* handler goes on past it (another tool, a payload that is no inbound     *)
(* message) its position is "beyond_listing" and nothing more is modelled. *)
(* The store's and the sinks' answers to record_history and record_sales   *)
(* are not read by the code (lines 201, 215), so a call stands for the     *)
(* write.                                                                  *)
(***************************************************************************)
EXTENDS Integers, Sequences, FiniteSets, TLC

\* ───── bounds of the model ─────
\* the longest template table and knowledge table the store returns
MaxRows == 2

\* ───── text ─────
None == << >>
Some(v) == << v >>

Upper == <<"A","B","C","D","E","F","G","H","I","J","K","L","M",
           "N","O","P","Q","R","S","T","U","V","W","X","Y","Z">>
LowerAlpha == <<"a","b","c","d","e","f","g","h","i","j","k","l","m",
                "n","o","p","q","r","s","t","u","v","w","x","y","z">>

\* str.lower() on one character
LowerChar(c) ==
  IF \E i \in 1..26 : Upper[i] = c
  THEN LowerAlpha[CHOOSE i \in 1..26 : Upper[i] = c]
  ELSE c

\* str.lower()
Lower(t) == [i \in 1..Len(t) |-> LowerChar(t[i])]

IsSpace(c) == c \in {" ", "\n", "\t"}

\* str.strip(): surrounding whitespace removed
Strip(t) ==
  LET keep == {i \in 1..Len(t) : ~IsSpace(t[i])}
  IN  IF keep = {} THEN << >>
      ELSE LET lo == CHOOSE i \in keep : \A j \in keep : i <= j
               hi == CHOOSE i \in keep : \A j \in keep : j <= i
           IN  SubSeq(t, lo, hi)

\* str.lstrip(c): every leading c removed
LStrip(t, c) ==
  LET other == {i \in 1..Len(t) : t[i] # c}
  IN  IF other = {} THEN << >>
      ELSE SubSeq(t, CHOOSE i \in other : \A j \in other : i <= j, Len(t))

\* Python's `needle in hay` on strings; the empty needle is in every string
Contains(needle, hay) ==
  \E i \in 1..(Len(hay) - Len(needle) + 1) :
     SubSeq(hay, i, i + Len(needle) - 1) = needle

\* text.split(c)[1], or None where Python raises IndexError
SplitSecond(t, c) ==
  LET qs == {i \in 1..Len(t) : t[i] = c}
  IN  IF qs = {} THEN None
      ELSE LET q1 == CHOOSE i \in qs : \A j \in qs : i <= j
               later == {i \in qs : i > q1}
               q2 == IF later = {} THEN Len(t) + 1
                     ELSE CHOOSE i \in later : \A j \in later : i <= j
           IN  Some(SubSeq(t, q1 + 1, q2 - 1))

\* ───── program constants ─────
\* the tool ids webhook() branches on (lines 262, 297)
ToolDefault == <<"D","e","f","a","u","l","t">>
ToolInfoSearch == <<"I","n","f","o","S","e","a","r","c","h">>
\* the booking keywords of line 293; the two code points of the second
\* keyword are one element each
KwBooking == <<"b","o","o","k","i","n","g">>
KwYuyue == <<"U+9884", "U+7EA6">>
\* the reply of line 302 when the knowledge lookup has no script
SorryText == <<"S","o","r","r","y",","," ","I"," ","c","o","u","l","d","n","'","t"," ","f","i","n","d"," ","t","h","a","t"," ","i","n","f","o",".">>
\* the prefixes of the history line, f"C:{msg}|B:{body}" (lines 268, 277, 292)
HistLine(msg, body) == <<"C", ":">> \o msg \o <<"|", "B", ":">> \o body
\* f"Customer: {msg}" (line 280)
HistoryString(msg) == <<"C","u","s","t","o","m","e","r",":"," ">> \o msg

\* ───── the inputs: payloads ─────
\* data.toNumber: a configured number, one whose config row has an empty business lookup, one whose business has
\* no BusinessConfig row, one of a tenant whose prompt has a stray
\* placeholder, and one the store does not know
ToNumbers == {<<"+","6","0","1">>, <<"6","0","2">>, <<"6","0","3">>, <<"+","6","0","4">>, <<"9","9","9">>}
FromNumbers == {<<"+","7","7">>}
Bodies == {<<" ","P","r","i","c","e","?">>, <<"r","e","f","u","n","d">>, <<"h","e","l","l","o"," ">>}

\* ───── the inputs: the generative backend's answers ─────
\* what requests.post / raise_for_status / r.json() give call_claude: an
\* HTTP failure, a body with no "choices" member, or a body whose first
\* choice carries `content`
RespHttpError == [status |-> "http_error", choices |-> FALSE, content |-> << >>]
RespNoChoices == [status |-> "ok", choices |-> FALSE, content |-> << >>]
RespText(t) == [status |-> "ok", choices |-> TRUE, content |-> t]
BackendTexts ==
  { <<"{","\"","T","O","O","L","S","\"",":","\"","D","e","f","a","u","l","t","\"","}">>,
    <<" ","\"","I","n","f","o","S","e","a","r","c","h","\"">>,
    <<"\"","D","e","f","a","u","l","t","\"","\n">>,
    <<" ","B","o","o","k","i","n","g"," ","o","k"," ">>,
    KwYuyue,
    <<"b","o","o","k">> }
BackendResponses == {RespHttpError, RespNoChoices} \cup {RespText(t) : t \in BackendTexts}

\* ───── the configuration store ─────
Has(row, field) == field \in DOMAIN row
\* dict.get(field, default)
Get(row, field, default) == IF Has(row, field) THEN row[field] ELSE default

\* table WhatsappConfig
ConfigTable ==
  << ("WhatsappNumber" :> <<"6","0","1">>) @@ ("WA_ID" :> "wa1") @@ ("WASSENGER_API_KEY" :> "k1")
       @@ ("BusinessID (from Business)" :> <<"b1">>) @@ ("Role" :> "sales"),
     ("WhatsappNumber" :> <<"6","0","2">>) @@ ("WA_ID" :> "wa2") @@ ("WASSENGER_API_KEY" :> "k2"),
     ("WhatsappNumber" :> <<"6","0","3">>) @@ ("WA_ID" :> "wa3") @@ ("WASSENGER_API_KEY" :> "k3")
       @@ ("BusinessID (from Business)" :> <<"b3">>),
     ("WhatsappNumber" :> <<"6","0","4">>) @@ ("WA_ID" :> "wa4") @@ ("WASSENGER_API_KEY" :> "k4")
       @@ ("BusinessID (from Business)" :> <<"b4">>) >>

\* table BusinessConfig; a prompt is a sequence of characters and of
\* replacement fields
BusinessTable ==
  << ("BusinessID" :> "b1") @@ ("ClaudeModel" :> "m1")
       @@ ("ClaudePrompt" :> <<"H", ":", "{history}", " ", "Q", ":", "{user_message}">>),
     ("BusinessID" :> "b4") @@ ("ClaudePrompt" :> <<"H", "i", " ", "{name}">>) >>

\* rows of table WhatsAppReplyTemplate the store can hold for tenant b1/wa1;
\* a row is returned whole (line 160): besides TemplateBody, the one field
\* webhook() reads, it can carry a trigger token and an image
TplScope == ("BusinessID (from Business)" :> "b1") @@ ("WhatsAppConfig" :> "wa1")
TemplateRows ==
  { TplScope @@ ("Trigger" :> <<"p","r","i","c","e">>) @@ ("TemplateBody" :> <<"P","9">>),
    TplScope @@ ("Trigger" :> <<"r","e","f","u","n","d">>) @@ ("TemplateBody" :> <<"R","7">>)
       @@ ("ImageURL" :> << <<"i","0">> >>),
    TplScope }
\* a row of another tenant, always in the table
TplForeign ==
  ("BusinessID (from Business)" :> "b9") @@ ("WhatsAppConfig" :> "wa9")
    @@ ("Trigger" :> <<"p","r","i","c","e">>) @@ ("TemplateBody" :> <<"F","0">>)

\* rows of table KnowledgeBase the store can hold for business b1
KnowledgeRows ==
  { ("BusinessID" :> "b1") @@ ("Title" :> <<"r","e","f","u","n","d">>) @@ ("DefaultScript" :> <<"7","d">>),
    ("BusinessID" :> "b1") @@ ("Title" :> <<"P","r","i","c","e">>) @@ ("RoleScripts" :> [sales |-> <<"S","1">>])
       @@ ("DefaultScript" :> <<"D","1">>) @@ ("ImageURL" :> << <<"i","1">>, <<"i","2">> >>),
    ("BusinessID" :> "b1") @@ ("Title" :> <<"p","r","i","c","e">>) @@ ("ImageURL" :> << <<"i","2">> >>),
    ("BusinessID" :> "b1") @@ ("DefaultScript" :> <<"A","1">>) }
KnForeign ==
  ("BusinessID" :> "b9") @@ ("Title" :> <<"h","e","l","l","o">>) @@ ("DefaultScript" :> <<"K","0">>)

\* every sequence over S of length at most n
RECURSIVE SeqsUpTo(_, _)
SeqsUpTo(S, n) ==
  IF n = 0 THEN { << >> }
  ELSE LET shorter == SeqsUpTo(S, n - 1)
       IN  shorter \cup { Append(q, x) : q \in {r \in shorter : Len(r) = n - 1}, x \in S }

\* the tables the store can hold, in the order it returns them
TemplateTables == { <<TplForeign>> \o q : q \in SeqsUpTo(TemplateRows, MaxRows) }
KnowledgeTables == { <<KnForeign>> \o q : q \in SeqsUpTo(KnowledgeRows, MaxRows) }

\* ───── tenant resolution ─────
\* a result is [ok |-> TRUE, value |-> v], or [ok |-> FALSE] where the code
\* raises
Raised == [ok |-> FALSE]
Returned(v) == [ok |-> TRUE, value |-> v]

\* fetch_service_config (lines 109-128): httpOk is raise_for_status
fetch_service_config(table, svc_no, httpOk) ==
  LET match(r) == r["WhatsappNumber"] = svc_no
      recs == SelectSeq(table, match)
  IN  IF ~httpOk \/ recs = << >> THEN Raised
      ELSE LET f == recs[1]
               biz_list == Get(f, "BusinessID (from Business)", << >>)
           IN  IF biz_list = << >> THEN Raised
               ELSE Returned([WA_ID |-> f["WA_ID"],
                              BusinessID |-> biz_list[1],
                              WassengerApiKey |-> f["WASSENGER_API_KEY"],
                              Role |-> Get(f, "Role", "")])

\* fetch_business_settings (lines 130-145)
DefaultPrompt == << >>
fetch_business_settings_Defaults(table, biz_id, httpOk) ==
  LET match(r) == r["BusinessID"] = biz_id
      recs == SelectSeq(table, match)
  IN  IF ~httpOk THEN Raised
      ELSE LET f == IF recs = << >> THEN ("BusinessID" :> biz_id) ELSE recs[1]
           IN  Returned([DefaultLanguage |-> Get(f, "DefaultLanguage", "en"),
                         ClaudePrompt |-> Get(f, "ClaudePrompt", DefaultPrompt),
                         ClaudeModel |-> Get(f, "ClaudeModel", "claude-opus-4-20250514")])

fetch_business_settings(table, biz_id, httpOk) ==
  LET match(r) == r["BusinessID"] = biz_id
      recs == SelectSeq(table, match)
  IN  IF ~httpOk \/ recs = << >> THEN Raised
      ELSE LET f == recs[1]
           IN  Returned([DefaultLanguage |-> Get(f, "DefaultLanguage", "en"),
                         ClaudePrompt |-> Get(f, "ClaudePrompt", DefaultPrompt),
                         ClaudeModel |-> Get(f, "ClaudeModel", "claude-opus-4-20250514")])

\* ───── the matchers ─────
\* find_template (lines 147-161): the first record the filter returns, or
\* None; the message is not a parameter
find_template(table, biz, wa) ==
  LET match(r) == r["BusinessID (from Business)"] = biz /\ r["WhatsAppConfig"] = wa
      recs == SelectSeq(table, match)
  IN  IF recs = << >> THEN None ELSE Some(recs[1])

\* Python truthiness of a str-or-None value
Truthy(opt) == Len(opt) = 1 /\ opt[1] # << >>
\* Python's `a or b` on str-or-None values
Or(a, b) == IF Truthy(a) THEN a ELSE b

\* the (script, img) pair find_knowledge returns for a matching record
\* (lines 173-175)
KnowledgeReply(flds, role) ==
  LET scripts == IF Has(flds, "RoleScripts") THEN flds["RoleScripts"] ELSE << >>
      byRole == IF role \in DOMAIN scripts THEN Some(scripts[role]) ELSE None
      dflt == IF Has(flds, "DefaultScript") THEN Some(flds["DefaultScript"]) ELSE None
      atts == Get(flds, "ImageURL", << >>)
  IN  [script |-> Or(byRole, dflt),
       img |-> IF atts # << >> THEN Some(atts[1]) ELSE None]

\* the test of line 172
TitleMatches(flds, msg) == Contains(Lower(Get(flds, "Title", << >>)), Lower(msg))

\* find_knowledge (lines 163-176)
find_knowledge(table, biz, msg, role) ==
  LET match(r) == r["BusinessID"] = biz
      recs == SelectSeq(table, match)
      hits == {i \in 1..Len(recs) : TitleMatches(recs[i], msg)}
  IN  IF hits = {} THEN [script |-> None, img |-> None]
      ELSE KnowledgeReply(recs[CHOOSE i \in hits : \A j \in hits : i <= j], role)

\* ───── the generative backend's callers ─────
\* the parse of select_tool (lines 101-107) on the text of the first choice
ParseTool(content) ==
  LET text == Strip(content)
      second == SplitSecond(text, "\"")
  IN  IF second = None THEN ToolDefault ELSE second[1]

\* select_tool (lines 77-107) on the backend's answer: raise_for_status and
\* the subscripts of line 101 are outside the try
select_tool(answer) ==
  IF answer.status # "ok" \/ ~answer.choices THEN Raised
  ELSE Returned(ParseTool(answer.content))

\* the reply of line 289, where the answer has one
FallbackReply(answer) ==
  IF answer.status # "ok" \/ ~answer.choices THEN Raised
  ELSE Returned(Strip(answer.content))

\* str.format(history=..., user_message=...) of line 284: any other
\* replacement field raises KeyError
ReplacementFields == {"{history}", "{user_message}", "{name}"}
RECURSIVE Substitute(_, _, _)
Substitute(prompt, history, user_message) ==
  IF prompt = << >> THEN << >>
  ELSE (CASE Head(prompt) = "{history}" -> history
          [] Head(prompt) = "{user_message}" -> user_message
          [] OTHER -> <<Head(prompt)>>)
       \o Substitute(Tail(prompt), history, user_message)
Format(prompt, history, user_message) ==
  IF \E i \in 1..Len(prompt) :
        prompt[i] \in ReplacementFields \ {"{history}", "{user_message}"}
  THEN Raised
  ELSE Returned(Substitute(prompt, history, user_message))

\* the test of line 293
HasBookingIntent_CaseSensitive(reply) ==
  Contains(KwBooking, reply) \/ Contains(KwYuyue, reply)

HasBookingIntent(reply) ==
  Contains(KwBooking, Lower(reply)) \/ Contains(KwYuyue, reply)

\* ───── the state ─────
VARIABLES
  pc,        \* the handler's position
  tplTable,  \* table WhatsAppReplyTemplate, in the order the store returns it
  knTable,   \* table KnowledgeBase, in the order the store returns it
  payload,   \* the request
  scfg,      \* webhook's scfg (line 251)
  bcfg,      \* webhook's bcfg (line 252)
  tool,      \* webhook's tool (line 259)
  tpl,       \* webhook's tpl (line 263), None or a record's fields
  kn,        \* webhook's (script, img) (lines 271, 298)
  resp,      \* webhook's resp (line 282), the backend's answer
  reply,     \* webhook's reply (line 289)
  effects,   \* every outbound call the request made, in order
  outcome    \* the response's status

vars == <<pc, tplTable, knTable, payload, scfg, bcfg, tool, tpl, kn, resp, reply,
          effects, outcome>>

\* one outbound call: the function called, the stage of webhook() that
\* called it, the phone number and the text it was given, and whether it
\* returned (FALSE: it raised)
Call(op, stage, to, arg, ok) ==
  [op |-> op, stage |-> stage, to |-> to, arg |-> arg, ok |-> ok]

NoPayload ==
  [method |-> "GET", event |-> FALSE, isGroup |-> FALSE,
   toNumber |-> << >>, fromNumber |-> << >>, body |-> << >>]
Payloads ==
  { NoPayload, [NoPayload EXCEPT !.method = "POST"] }
  \cup [method : {"POST"}, event : {TRUE}, isGroup : BOOLEAN,
        toNumber : ToNumbers, fromNumber : FromNumbers, body : Bodies]

\* lines 244-247
svc_no_lookup == LStrip(payload.toNumber, "+")
cus_no_lookup == LStrip(payload.fromNumber, "+")
cus_no_raw == payload.fromNumber
msg == Strip(payload.body)

NoScfg == [WA_ID |-> "", BusinessID |-> "", WassengerApiKey |-> "", Role |-> ""]
NoBcfg == [DefaultLanguage |-> "", ClaudePrompt |-> << >>, ClaudeModel |-> ""]
NoKn == [script |-> None, img |-> None]
NoResp == [status |-> "none", choices |-> FALSE, content |-> << >>]

Init ==
  /\ pc = "idle"
  /\ tplTable \in TemplateTables
  /\ knTable \in KnowledgeTables
  /\ payload = NoPayload
  /\ scfg = NoScfg
  /\ bcfg = NoBcfg
  /\ tool = << >>
  /\ tpl = None
  /\ kn = NoKn
  /\ resp = NoResp
  /\ reply = << >>
  /\ effects = << >>
  /\ outcome = "none"

\* the exception leaves webhook(): Flask answers 500
Fail == pc' = "failed" /\ outcome' = "error"

\* a request arrives
Receive ==
  /\ pc = "idle"
  /\ payload' \in Payloads
  /\ pc' = "webhook"
  /\ UNCHANGED <<tplTable, knTable, scfg, bcfg, tool, tpl, kn, resp, reply, effects, outcome>>

\* lines 231-249: the liveness probe, the event test, the group test
Dispatch_NoGroupTest ==
  /\ pc = "webhook"
  /\ IF payload.method = "GET" THEN pc' = "done" /\ outcome' = "OK"
     ELSE IF ~payload.event THEN pc' = "beyond_listing" /\ outcome' = "none"
     ELSE pc' = "fetch_service_config" /\ outcome' = "none"
  /\ UNCHANGED <<tplTable, knTable, payload, scfg, bcfg, tool, tpl, kn, resp, reply, effects>>

Dispatch ==
  /\ pc = "webhook"
  /\ IF payload.method = "GET" THEN pc' = "done" /\ outcome' = "OK"
     ELSE IF ~payload.event THEN pc' = "beyond_listing" /\ outcome' = "none"
     ELSE IF payload.isGroup THEN pc' = "done" /\ outcome' = "ignored_group"
     ELSE pc' = "fetch_service_config" /\ outcome' = "none"
  /\ UNCHANGED <<tplTable, knTable, payload, scfg, bcfg, tool, tpl, kn, resp, reply, effects>>

\* line 251
FetchServiceConfig ==
  /\ pc = "fetch_service_config"
  /\ \E httpOk \in BOOLEAN :
       LET r == fetch_service_config(ConfigTable, svc_no_lookup, httpOk)
       IN  IF r.ok THEN scfg' = r.value /\ pc' = "fetch_business_settings"
                        /\ outcome' = outcome
           ELSE scfg' = scfg /\ Fail
  /\ UNCHANGED <<tplTable, knTable, payload, bcfg, tool, tpl, kn, resp, reply, effects>>

\* line 252
FetchBusinessSettings ==
  /\ pc = "fetch_business_settings"
  /\ \E httpOk \in BOOLEAN :
       LET r == fetch_business_settings(BusinessTable, scfg.BusinessID, httpOk)
       IN  IF r.ok THEN bcfg' = r.value /\ pc' = "select_tool" /\ outcome' = outcome
           ELSE bcfg' = bcfg /\ Fail
  /\ UNCHANGED <<tplTable, knTable, payload, scfg, tool, tpl, kn, resp, reply, effects>>

\* lines 259-262 and 297: the router call, then the branch on the tool
SelectTool ==
  /\ pc = "select_tool"
  /\ \E answer \in BackendResponses :
       LET r == select_tool(answer)
       IN  /\ effects' = Append(effects,
                           Call("call_claude", "router", << >>, msg, answer.status = "ok"))
           /\ IF r.ok
              THEN /\ tool' = r.value
                   /\ pc' = CASE r.value = ToolDefault -> "find_template"
                              [] r.value = ToolInfoSearch -> "info_find_knowledge"
                              [] OTHER -> "beyond_listing"
                   /\ outcome' = outcome
              ELSE tool' = tool /\ Fail
  /\ UNCHANGED <<tplTable, knTable, payload, scfg, bcfg, tpl, kn, resp, reply>>

\* lines 263-265
FindTemplate ==
  /\ pc = "find_template"
  /\ \E httpOk \in BOOLEAN :
       /\ effects' = Append(effects, Call("find_template", "template", << >>, << >>, httpOk))
       /\ IF httpOk
          THEN LET found == find_template(tplTable, scfg.BusinessID, scfg.WA_ID)
               IN  /\ tpl' = found
                   /\ pc' = IF found # None /\ DOMAIN found[1] # {}
                            THEN "template_send" ELSE "find_knowledge"
                   /\ outcome' = outcome
          ELSE tpl' = tpl /\ Fail
  /\ UNCHANGED <<tplTable, knTable, payload, scfg, bcfg, tool, kn, resp, reply>>

\* a delivery call of stage `stage` (send_image or send_whatsapp, lines
\* 181-197), after which the handler is at `then`; raise_for_status ends
\* the request
Deliver_Swallowed(op, stage, arg, then) ==
  \E ok \in BOOLEAN :
     /\ effects' = Append(effects, Call(op, stage, cus_no_raw, arg, ok))
     /\ pc' = then
     /\ outcome' = outcome

Deliver(op, stage, arg, then) ==
  \E ok \in BOOLEAN :
     /\ effects' = Append(effects, Call(op, stage, cus_no_raw, arg, ok))
     /\ IF ok THEN pc' = then /\ outcome' = outcome ELSE Fail

\* line 266
TemplateBody == Get(tpl[1], "TemplateBody", << >>)

\* line 267
TemplateSend ==
  /\ pc = "template_send"
  /\ Deliver("send_whatsapp", "template", TemplateBody, "template_history")
  /\ UNCHANGED <<tplTable, knTable, payload, scfg, bcfg, tool, tpl, kn, resp, reply>>

\* lines 268-269
TemplateHistory ==
  /\ pc = "template_history"
  /\ effects' = Append(effects, Call("record_history", "template", cus_no_lookup,
                                     HistLine(msg, TemplateBody), TRUE))
  /\ pc' = "done"
  /\ outcome' = "template_sent"
  /\ UNCHANGED <<tplTable, knTable, payload, scfg, bcfg, tool, tpl, kn, resp, reply>>

\* the lookup of lines 271 and 298, made from stage `stage`; the handler
\* goes on at `both` when it has a script and an image, at `scriptOnly`,
\* `imgOnly` or `neither` otherwise
KnowledgeLookup(stage, both, scriptOnly, imgOnly, neither) ==
  \E httpOk \in BOOLEAN :
     /\ effects' = Append(effects, Call("find_knowledge", stage, << >>, msg, httpOk))
     /\ IF httpOk
        THEN LET found == find_knowledge(knTable, scfg.BusinessID, msg, scfg.Role)
             IN  /\ kn' = found
                 /\ pc' = CASE Truthy(found.script) /\ Truthy(found.img) -> both
                            [] Truthy(found.script) /\ ~Truthy(found.img) -> scriptOnly
                            [] ~Truthy(found.script) /\ Truthy(found.img) -> imgOnly
                            [] OTHER -> neither
                 /\ outcome' = outcome
        ELSE kn' = kn /\ Fail

\* lines 271-274
FindKnowledge ==
  /\ pc = "find_knowledge"
  /\ KnowledgeLookup("knowledge", "knowledge_image", "knowledge_send",
                     "fallback_call", "fallback_call")
  /\ UNCHANGED <<tplTable, knTable, payload, scfg, bcfg, tool, tpl, resp, reply>>

\* line 275
KnowledgeImage ==
  /\ pc = "knowledge_image"
  /\ Deliver("send_image", "knowledge", kn.img[1], "knowledge_send")
  /\ UNCHANGED <<tplTable, knTable, payload, scfg, bcfg, tool, tpl, kn, resp, reply>>

\* line 276
KnowledgeSend ==
  /\ pc = "knowledge_send"
  /\ Deliver("send_whatsapp", "knowledge", kn.script[1], "knowledge_history")
  /\ UNCHANGED <<tplTable, knTable, payload, scfg, bcfg, tool, tpl, kn, resp, reply>>

\* lines 277-278
KnowledgeHistory ==
  /\ pc = "knowledge_history"
  /\ effects' = Append(effects, Call("record_history", "knowledge", cus_no_lookup,
                                     HistLine(msg, kn.script[1]), TRUE))
  /\ pc' = "done"
  /\ outcome' = "knowledge_sent"
  /\ UNCHANGED <<tplTable, knTable, payload, scfg, bcfg, tool, tpl, kn, resp, reply>>

\* lines 280-290: the prompt is formatted, then the backend is called
FallbackCall ==
  /\ pc = "fallback_call"
  /\ LET prompt == Format(bcfg.ClaudePrompt, HistoryString(msg), msg)
     IN  IF ~prompt.ok
         THEN resp' = resp /\ reply' = reply /\ effects' = effects /\ Fail
         ELSE \E answer \in BackendResponses :
                LET r == FallbackReply(answer)
                IN  /\ effects' = Append(effects, Call("call_claude", "fallback", << >>,
                                                       prompt.value, answer.status = "ok"))
                    /\ resp' = answer
                    /\ IF r.ok
                       THEN reply' = r.value /\ pc' = "fallback_send" /\ outcome' = outcome
                       ELSE reply' = reply /\ Fail
  /\ UNCHANGED <<tplTable, knTable, payload, scfg, bcfg, tool, tpl, kn>>

\* line 291
FallbackSend ==
  /\ pc = "fallback_send"
  /\ Deliver("send_whatsapp", "fallback", reply, "fallback_history")
  /\ UNCHANGED <<tplTable, knTable, payload, scfg, bcfg, tool, tpl, kn, resp, reply>>

\* line 292
FallbackHistory ==
  /\ pc = "fallback_history"
  /\ effects' = Append(effects, Call("record_history", "fallback", cus_no_lookup,
                                     HistLine(msg, reply), TRUE))
  /\ pc' = "lead_detect"
  /\ UNCHANGED <<tplTable, knTable, payload, scfg, bcfg, tool, tpl, kn, resp, reply, outcome>>

\* lines 293-295
LeadDetect ==
  /\ pc = "lead_detect"
  /\ effects' = IF HasBookingIntent(reply)
                THEN Append(effects, Call("record_sales", "fallback", cus_no_lookup,
                                          << >>, TRUE))
                ELSE effects
  /\ pc' = "done"
  /\ outcome' = "ok"
  /\ UNCHANGED <<tplTable, knTable, payload, scfg, bcfg, tool, tpl, kn, resp, reply>>

\* lines 298-300
InfoFindKnowledge ==
  /\ pc = "info_find_knowledge"
  /\ KnowledgeLookup("infosearch", "info_image", "info_send", "info_image", "info_send")
  /\ UNCHANGED <<tplTable, knTable, payload, scfg, bcfg, tool, tpl, resp, reply>>

\* line 301
InfoImage ==
  /\ pc = "info_image"
  /\ Deliver("send_image", "infosearch", kn.img[1], "info_send")
  /\ UNCHANGED <<tplTable, knTable, payload, scfg, bcfg, tool, tpl, kn, resp, reply>>

\* line 302
InfoSend ==
  /\ pc = "info_send"
  /\ Deliver("send_whatsapp", "infosearch",
             IF Truthy(kn.script) THEN kn.script[1] ELSE SorryText, "info_history")
  /\ UNCHANGED <<tplTable, knTable, payload, scfg, bcfg, tool, tpl, kn, resp, reply>>

\* line 303, where the listing ends
InfoHistory ==
  /\ pc = "info_history"
  /\ effects' = Append(effects, Call("record_history", "infosearch", cus_no_lookup,
                                     << >>, TRUE))
  /\ pc' = "beyond_listing"
  /\ UNCHANGED <<tplTable, knTable, payload, scfg, bcfg, tool, tpl, kn, resp, reply, outcome>>

Next ==
  \/ Receive
  \/ Dispatch
  \/ FetchServiceConfig
  \/ FetchBusinessSettings
  \/ SelectTool
  \/ FindTemplate
  \/ TemplateSend
  \/ TemplateHistory
  \/ FindKnowledge
  \/ KnowledgeImage
  \/ KnowledgeSend
  \/ KnowledgeHistory
  \/ FallbackCall
  \/ FallbackSend
  \/ FallbackHistory
  \/ LeadDetect
  \/ InfoFindKnowledge
  \/ InfoImage
  \/ InfoSend
  \/ InfoHistory

Spec == Init /\ [][Next]_vars

\* ───── what the properties speak of ─────
\* the request is an inbound message (line 238) that is not a group message
IsMessage == pc # "idle" /\ payload.method = "POST" /\ payload.event
NonGroupMessage == IsMessage /\ ~payload.isGroup
\* the calls of the request so far that satisfy `is`
CallsOf(ops) == {i \in DOMAIN effects : effects[i].op \in ops}
DeliveryOps == {"send_whatsapp", "send_image"}
\* tenant resolution is behind the handler
TenantResolved == NonGroupMessage /\ scfg # NoScfg /\ bcfg # NoBcfg

\* C2: a group message makes no delivery call, no generative call (the
\* router call included), no history write and no sales write, and its
\* outcome is always Ignored.
C2_GroupMessageIgnored ==
  (IsMessage /\ payload.isGroup) =>
     /\ effects = << >>
     /\ pc \in {"webhook", "done"}
     /\ pc = "done" => outcome = "ignored_group"
\* a group message with a body a template and a knowledge entry would answer
C2_Witness ==
  /\ IsMessage /\ payload.isGroup
  /\ pc = "done" /\ outcome = "ignored_group"
  /\ Contains(<<"r","e","f","u","n","d">>, payload.body)
  /\ Len(tplTable) > 1 /\ Len(knTable) > 1

\* the rows of WhatsappConfig for the normalized service number
ConfigRowsFor(number) == {i \in DOMAIN ConfigTable : ConfigTable[i]["WhatsappNumber"] = number}
\* no WhatsappConfig row for the normalized service number
NoWhatsappConfig == ConfigRowsFor(svc_no_lookup) = {}
\* a WhatsappConfig row names a business that has no BusinessConfig row
NoBusinessConfig ==
  \E i \in ConfigRowsFor(svc_no_lookup) :
     /\ \A j \in ConfigRowsFor(svc_no_lookup) : i <= j
     /\ Has(ConfigTable[i], "BusinessID (from Business)")
     /\ \A b \in DOMAIN BusinessTable :
           BusinessTable[b]["BusinessID"] # ConfigTable[i]["BusinessID (from Business)"][1]

\* C5: when tenant resolution fails for a non-group message (no
\* WhatsappConfig row for the normalized number, or no BusinessConfig row
\* for its business) the request fails with an error and makes no delivery
\* send, no generative call, no history write and no sales write.
C5_ResolutionFailureHasNoEffects ==
  (NonGroupMessage /\ pc # "webhook" /\ (NoWhatsappConfig \/ NoBusinessConfig)) =>
     /\ effects = << >>
     /\ pc \in {"fetch_service_config", "fetch_business_settings", "failed"}
     /\ pc = "failed" => outcome = "error"
\* the business lookup has failed for a number whose config row resolved
C5_Witness ==
  /\ NonGroupMessage /\ NoBusinessConfig
  /\ scfg # NoScfg
  /\ pc = "failed" /\ outcome = "error"

\* C10: when a delivery call fails, in any stage, the failure ends the
\* request: that call is the request's last call (no further send, no
\* history record, no sales lead, no later stage) and the outcome is an
\* error.
C10_DeliveryFailureAborts ==
  \A i \in CallsOf(DeliveryOps) :
     ~effects[i].ok => /\ i = Len(effects)
                       /\ pc = "failed"
                       /\ outcome = "error"
\* the image of a knowledge entry was sent and its text send failed
C10_Witness ==
  /\ pc = "failed"
  /\ Len(effects) >= 2
  /\ effects[Len(effects)].op = "send_whatsapp" /\ ~effects[Len(effects)].ok
  /\ effects[Len(effects) - 1].op = "send_image" /\ effects[Len(effects) - 1].ok
  /\ effects[Len(effects)].stage = "knowledge"

\* a booking keyword of line 293 occurs in the text: "booking" in any
\* letter case, or the two-character keyword
BookingKeywordIn(text) ==
  \/ \E i \in 1..Len(text) :
        /\ i + Len(KwBooking) - 1 <= Len(text)
        /\ \A k \in 1..Len(KwBooking) : LowerChar(text[i + k - 1]) = KwBooking[k]
  \/ \E i \in 1..Len(text) :
        /\ i + Len(KwYuyue) - 1 <= Len(text)
        /\ \A k \in 1..Len(KwYuyue) : text[i + k - 1] = KwYuyue[k]

\* C4: a SalesLead is written if and only if the request ended in
\* GeneratedSent and the generated reply holds a booking keyword; template
\* and knowledge outcomes write none, and the reply text alone decides.
C4_LeadIffGeneratedWithKeyword ==
  /\ Cardinality(CallsOf({"record_sales"})) <= 1
  /\ CallsOf({"record_sales"}) # {} =>
        /\ pc = "done" /\ outcome = "ok"
        /\ BookingKeywordIn(reply)
  /\ (pc = "done" /\ outcome = "ok" /\ BookingKeywordIn(reply)) =>
        CallsOf({"record_sales"}) # {}
  /\ (pc = "done" /\ outcome \in {"template_sent", "knowledge_sent"}) =>
        CallsOf({"record_sales"}) = {}
\* a lead was written for a reply that spells the keyword with a capital
C4_Witness ==
  /\ pc = "done" /\ outcome = "ok"
  /\ CallsOf({"record_sales"}) # {}
  /\ Contains(<<"B","o","o","k","i","n","g">>, reply)

\* ───── the matchers as the properties describe them ─────
\* the template rows of the resolved tenant, in store-return order
TenantTemplates ==
  LET mine(r) == /\ r["BusinessID (from Business)"] = scfg.BusinessID
                 /\ r["WhatsAppConfig"] = scfg.WA_ID
  IN  SelectSeq(tplTable, mine)
\* the row's trigger token is a non-empty case-insensitive substring of
\* the body
TriggerMatches(row, body) ==
  /\ Has(row, "Trigger")
  /\ row["Trigger"] # << >>
  /\ Contains(Lower(row["Trigger"]), Lower(body))
MatchingTemplates == {i \in DOMAIN TenantTemplates : TriggerMatches(TenantTemplates[i], payload.body)}
TemplateWouldMatch == MatchingTemplates # {}
\* the first matching row in store-return order
FirstMatchingTemplate ==
  TenantTemplates[CHOOSE i \in MatchingTemplates : \A j \in MatchingTemplates : i <= j]

\* the knowledge entries of the resolved tenant's business, in store order
TenantKnowledge ==
  LET mine(r) == r["BusinessID"] = scfg.BusinessID
  IN  SelectSeq(knTable, mine)
\* the entry's title is a non-empty case-insensitive substring of the body
\* and its reply, roleScripts[role] else defaultScript, is non-empty
UsableEntry(row, body, role) ==
  /\ Has(row, "Title")
  /\ row["Title"] # << >>
  /\ Contains(Lower(row["Title"]), Lower(body))
  /\ \/ Has(row, "RoleScripts") /\ role \in DOMAIN row["RoleScripts"]
                                /\ row["RoleScripts"][role] # << >>
     \/ Has(row, "DefaultScript") /\ row["DefaultScript"] # << >>
UsableEntries ==
  {i \in DOMAIN TenantKnowledge : UsableEntry(TenantKnowledge[i], payload.body, scfg.Role)}
KnowledgeWouldMatch == UsableEntries # {}
FirstUsableEntry ==
  TenantKnowledge[CHOOSE i \in UsableEntries : \A j \in UsableEntries : i <= j]
\* the reply of a usable entry
EntryReply(row, role) ==
  IF Has(row, "RoleScripts") /\ role \in DOMAIN row["RoleScripts"]
                             /\ row["RoleScripts"][role] # << >>
  THEN row["RoleScripts"][role]
  ELSE row["DefaultScript"]

\* C6: the template matcher returns the first row, in store-return order,
\* whose trigger token is a non-empty case-insensitive substring of the
\* body; a row without a trigger token, or whose token is not in the body,
\* is never selected, and there is no match when no row's token occurs.
C6_FirstTriggerMatch ==
  /\ pc = "template_send" =>
        /\ TemplateWouldMatch
        /\ TriggerMatches(tpl[1], payload.body)
        /\ tpl[1] = FirstMatchingTemplate
  /\ pc = "find_knowledge" => ~TemplateWouldMatch

\* C8: the knowledge matcher returns the first entry whose title is a
\* non-empty case-insensitive substring of the body and whose reply is
\* non-empty; an entry without a title never matches, and an entry whose
\* title matches but has no script is skipped and the scan goes on.
C8_FirstUsableEntry ==
  pc \in {"knowledge_image", "knowledge_send", "fallback_call"} =>
     IF KnowledgeWouldMatch
     THEN /\ pc # "fallback_call"
          /\ kn.script = Some(EntryReply(FirstUsableEntry, scfg.Role))
     ELSE pc = "fallback_call"

\* the verdicts of the two matchers on the request, as the handler's
\* stages get them
TemplateFound == find_template(tplTable, scfg.BusinessID, scfg.WA_ID) # None
KnowledgeFound == Truthy(find_knowledge(knTable, scfg.BusinessID, msg, scfg.Role).script)
\* the message matches a template, a knowledge entry, or neither: by the
\* trigger and title rules above and by the matchers' verdicts alike
TemplateMatches == TemplateWouldMatch /\ TemplateFound
KnowledgeMatches == KnowledgeWouldMatch /\ KnowledgeFound
NeitherMatches ==
  /\ ~TemplateWouldMatch /\ ~TemplateFound
  /\ ~KnowledgeWouldMatch /\ ~KnowledgeFound

\* the template stage answered: its text send returned with the body of
\* the first matching row
TemplateReplySent ==
  /\ outcome = "template_sent"
  /\ \E i \in CallsOf({"send_whatsapp"}) :
        /\ effects[i].ok /\ effects[i].stage = "template"
        /\ effects[i].arg = Get(FirstMatchingTemplate, "TemplateBody", << >>)
\* the knowledge stage did nothing: no lookup the store answered, no send
\* and no history record of that stage
KnowledgeStageSilent ==
  /\ \A i \in CallsOf({"find_knowledge"}) : ~effects[i].ok
  /\ \A i \in DOMAIN effects : effects[i].stage # "knowledge"

\* C1: for a non-group message whose tenant resolves and for which a
\* template and a knowledge entry both match, the template reply is sent
\* and the knowledge stage never executes: no knowledge lookup, no
\* knowledge-stage send, no history record of stage "knowledge".
C1_TemplatePreemptsKnowledge ==
  (TenantResolved /\ TemplateMatches /\ KnowledgeMatches) =>
     /\ KnowledgeStageSilent
     /\ pc = "done" => TemplateReplySent

\* the completion calls of the request, in order
CompletionCalls == SelectSeq(effects, LAMBDA e : e.op = "call_claude")
\* the one text the request delivered is `text`, and it delivered nothing
\* else
OnlySent(text) ==
  \E i \in DOMAIN effects :
     /\ CallsOf(DeliveryOps) = {i}
     /\ effects[i].op = "send_whatsapp" /\ effects[i].ok
     /\ effects[i].arg = text
\* the request wrote one history record, of stage "fallback", after its send
FallbackRecorded ==
  \E h \in DOMAIN effects :
     /\ CallsOf({"record_history"}) = {h}
     /\ effects[h].stage = "fallback"
     /\ \E i \in CallsOf({"send_whatsapp"}) : i < h

\* C3: for a non-group message with a resolved tenant that matches neither
\* a template nor a knowledge entry, the request makes exactly one
\* completion call, sends exactly that call's output trimmed of surrounding
\* whitespace, ends GeneratedSent and writes a history record of stage
\* "fallback".
C3_FallbackRunsOnce ==
  (TenantResolved /\ NeitherMatches /\ pc = "done") =>
     /\ Len(CompletionCalls) = 1
     /\ outcome = "ok"
     /\ OnlySent(Strip(resp.content))
     /\ FallbackRecorded

\* C7: a failure of the generative backend does not affect the template
\* and knowledge stages: a request whose message matches a template or a
\* knowledge entry is never ended by a backend call.
C7_BackendFailureSparesMatches ==
  (TenantResolved /\ pc = "failed" /\ effects # << >>
     /\ effects[Len(effects)].op = "call_claude") =>
        ~(TemplateMatches \/ KnowledgeMatches)

\* the matched entry of stage `stage` has an image
MatchedImage(stage) ==
  CASE stage = "template" -> Len(tpl) = 1 /\ Get(tpl[1], "ImageURL", << >>) # << >>
    [] stage = "knowledge" -> Truthy(kn.img)
    [] OTHER -> FALSE

\* C9: within the template stage and within the knowledge stage, when the
\* matched entry has an image the image send happens before the text send,
\* and the stage's history record is written only after the text send.
C9_ImageThenTextThenHistory ==
  \A stage \in {"template", "knowledge"} :
     \A i \in DOMAIN effects :
        /\ (effects[i].op = "send_whatsapp" /\ effects[i].stage = stage
              /\ effects[i].ok /\ MatchedImage(stage)) =>
              \E j \in 1..(i - 1) : effects[j].op = "send_image" /\ effects[j].stage = stage
        /\ (effects[i].op = "record_history" /\ effects[i].stage = stage) =>
              \E j \in 1..(i - 1) : /\ effects[j].op = "send_whatsapp"
                                    /\ effects[j].stage = stage /\ effects[j].ok

====
